---- MODULE Spec2Model ----
(***************************************************************************)
(* Model of the buddy allocator of src/buddy.c.                            *)
(*                                                                         *)
(* A pool is a byte buffer whose front holds the control block and the     *)
(* status tree, two bits per node, four nodes per byte.  Byte offsets are  *)
(* measured from the first tree byte, as buddy_alloc and buddy_free do.    *)
(*                                                                         *)
(* Machine words wider than TLC's integers are kept as sets of bit         *)
(* positions: a size_t is a subset of 0..63, a uint32_t a subset of 0..31. *)
(***************************************************************************)
EXTENDS Integers, Sequences, FiniteSets, Bags, TLC

NODE_UNUSED == 0
NODE_USED == 1
NODE_SPLIT == 2
NODE_FULL == 3

\* The value buddy_alloc and the constructors return when they return NULL.
NULL == -1

(***************************************************************************)
(* Words as bit sets.                                                      *)
(***************************************************************************)
Bits(n) == {i \in 0..30 : (n \div 2^i) % 2 = 1}

RECURSIVE Val(_)
Val(b) ==
    IF b = {} THEN 0
    ELSE LET i == CHOOSE j \in b : TRUE
         IN  IF b = {i} THEN 2^i ELSE 2^i + Val(b \ {i})

MaxBit(b) == CHOOSE i \in b : \A j \in b : j <= i
MinBit(b) == CHOOSE i \in b : \A j \in b : i <= j

\* (uint32_t) s: the low 32 bits of a wider word.
U32(b) == b \cap (0..31)

\* x - 1 on uint32_t (0 - 1 wraps to 0xFFFFFFFF).
Dec32(x) ==
    IF x = {} THEN 0..31
    ELSE LET low == MinBit(x) IN (x \ {low}) \cup (0..(low - 1))

\* x + 1 on uint32_t (0xFFFFFFFF + 1 wraps to 0).
Inc32(x) ==
    LET zeros == (0..31) \ x
    IN  IF zeros = {} THEN {}
        ELSE LET low == MinBit(zeros) IN (x \ (0..(low - 1))) \cup {low}

\* x >> k on an unsigned word.
Shr(x, k) == {i - k : i \in {j \in x : j >= k}}

\* a - b on unsigned int (32 bits), for a, b below 2^31.
Sub32(a, b) ==
    IF a >= b THEN Bits(a - b)
    ELSE (0..31) \ Bits(b - a - 1)

\* s <= n for a size_t s and an int n >= 0 converted to size_t.
WordLeq(s, n) == s = {} \/ (MaxBit(s) <= 30 /\ Val(s) <= n)

\* ((int) x) >> m for a uint32_t x and 1 <= m <= 31: the conversion keeps the
\* bit pattern (two's complement) and the shift of a negative int is
\* arithmetic, as on every compiler the GNUC branch is written for.
IntShr(x, m) ==
    (Val(x \ {31}) \div 2^m) - (IF 31 \in x THEN 2^(31 - m) ELSE 0)

(***************************************************************************)
(* Build targets.  size_t is 64 bits wide in all of them; they differ in   *)
(* which branch of next_pow_of_2 is compiled and in the width of the       *)
(* unsigned long that __builtin_clzl counts over.                          *)
(***************************************************************************)
Builds == {"gnuc_lp64", "gnuc_llp64", "generic"}

IsGnuc(b) == b \in {"gnuc_lp64", "gnuc_llp64"}

LongBits(b) == IF b = "gnuc_lp64" THEN 64 ELSE 32

(***************************************************************************)
(* Size rounding: is_pow_of_2 and next_pow_of_2.                           *)
(***************************************************************************)
is_pow_of_2(x) == (x \cap Dec32(x)) = {}

\* __builtin_clzl(x) - 1, the shift count of the GNUC branch (x # 0 there).
ClzShift(b, x) == (LongBits(b) - 1 - MaxBit(x)) - 1

\* 0x80000000 >> c is defined for 0 <= c < 32 only.
ShiftDefined(c) == 0 <= c /\ c < 32

\* The outcomes of 0x80000000 >> c on unsigned int.  Out of range the shift is
\* undefined: the machine either takes the count modulo 32 or shifts every
\* bit out.
ShiftOutcomes(c) ==
    IF ShiftDefined(c) THEN {Shr({31}, c)}
    ELSE {Shr({31}, c % 32), {}}

\* The portable branch: smear the top bit down, then add one.
Smear(x) ==
    LET x1 == x \cup Shr(x, 1)
        x2 == x1 \cup Shr(x1, 2)
        x3 == x2 \cup Shr(x2, 4)
        x4 == x3 \cup Shr(x3, 8)
        x5 == x4 \cup Shr(x4, 16)
    IN  Inc32(x5)

\* next_pow_of_2(x): the set of values the call can return on build b.
next_pow_of_2(b, x) ==
    IF is_pow_of_2(x) THEN {x}
    ELSE IF IsGnuc(b) THEN ShiftOutcomes(ClzShift(b, x))
    ELSE {Smear(x)}

\* The rounding of a request of s bytes is defined behaviour on build b.
RoundingDefined(b, min_level, s) ==
    \/ WordLeq(s, 2^min_level)
    \/ is_pow_of_2(U32(s))
    \/ ~IsGnuc(b)
    \/ ShiftDefined(ClzShift(b, U32(s)))

(***************************************************************************)
(* Status codec: two bits per node, node i in byte i >> 2 at bit (i&3)*2.  *)
(***************************************************************************)
_get_index_status(t, index) == (t[index \div 4] \div 4^(index % 4)) % 4

_set_index_status(t, index, status) ==
    LET shift == 4^(index % 4)
        old   == t[index \div 4] - ((t[index \div 4] \div shift) % 4) * shift
    IN  [t EXCEPT ![index \div 4] = old + status * shift]

\* The tree of a pool of the given level has 2^(level+1) - 1 nodes.
NodeCount(level) == 2^(level + 1) - 1

InTree(level, index) == 0 <= index /\ index < NodeCount(level)

\* The sibling of a node, and its parent.
BuddyOf(index) == index - 1 + (index % 2) * 2
ParentOf(index) == (index + 1) \div 2 - 1

\* _index_offset that counts the nodes from the root, not within the depth.
_index_offset_flat(min_level, index, level, max_level) ==
    (index * 2^(max_level - level)) * 2^min_level

_index_offset(min_level, index, level, max_level) ==
    (((index + 1) - 2^level) * 2^(max_level - level)) * 2^min_level

(***************************************************************************)
(* _mark_parent: after a node became USED, mark every ancestor FULL whose  *)
(* two children are USED or FULL.                                          *)
(***************************************************************************)
\* _mark_parent that marks no ancestor.
_mark_parent_none(t, index) == t

RECURSIVE _mark_parent(_, _)
_mark_parent(t, index) ==
    LET buddy == BuddyOf(index)
    IN  IF /\ buddy > 0
           /\ \/ _get_index_status(t, buddy) = NODE_USED
              \/ _get_index_status(t, buddy) = NODE_FULL
        THEN _mark_parent(_set_index_status(t, ParentOf(index), NODE_FULL),
                          ParentOf(index))
        ELSE t

(***************************************************************************)
(* buddy_alloc.  A pool is the record self = [min_level, level] with the   *)
(* tree bytes t.  The search returns [tree, ret, bytes, node, ub]: the     *)
(* tree after the call, the byte offset returned (NULL for none), the size *)
(* in bytes and the index of the node marked USED, and whether the call    *)
(* ran into undefined behaviour (it then stops at the last defined write). *)
(***************************************************************************)
AllocNull(t) == [tree |-> t, ret |-> NULL, bytes |-> 0, node |-> NULL, ub |-> FALSE]

AllocUndefined(t) == [tree |-> t, ret |-> NULL, bytes |-> 0, node |-> NULL, ub |-> TRUE]

\* Lines 171-174: the node of the requested size is UNUSED and is taken.
AllocTake(self, t, index, level, length) ==
    [tree  |-> _mark_parent(_set_index_status(t, index, NODE_USED), index),
     ret   |-> _index_offset(self.min_level, index, level, self.level),
     bytes |-> length * 2^self.min_level,
     node  |-> index,
     ub    |-> FALSE]

\* Lines 184-186: split an UNUSED node, its two children become UNUSED.
AllocSplit(t, index) ==
    _set_index_status(
        _set_index_status(
            _set_index_status(t, index, NODE_SPLIT),
            index * 2 + 1, NODE_UNUSED),
        index * 2 + 2, NODE_UNUSED)

RECURSIVE alloc_walk(_, _, _, _, _, _)
RECURSIVE alloc_ascend(_, _, _, _, _, _)

\* Lines 194-208: move to the right sibling, or climb until there is one.
alloc_backtrack(self, t, size, index, level, length) ==
    IF index % 2 = 1
    THEN alloc_walk(self, t, size, index + 1, level, length)
    ELSE alloc_ascend(self, t, size, index, level, length)

\* alloc_ascend that gives up instead of climbing to an ancestor's sibling.
alloc_ascend_giveup(self, t, size, index, level, length) == AllocNull(t)

\* Lines 198-208: the inner for (;;) loop.
alloc_ascend(self, t, size, index, level, length) ==
    LET up == ParentOf(index)
    IN  IF up < 0 THEN AllocNull(t)
        ELSE IF up % 2 = 1
        THEN alloc_walk(self, t, size, up + 1, level - 1, length * 2)
        ELSE alloc_ascend(self, t, size, up, level - 1, length * 2)

\* alloc_walk that enters the right child of a node it has just split.
alloc_walk_right(self, t, size, index, level, length) ==
    IF index < 0 THEN AllocNull(t)
    ELSE IF ~InTree(self.level, index) THEN AllocUndefined(t)
    ELSE IF size = length
    THEN IF _get_index_status(t, index) = NODE_UNUSED
         THEN AllocTake(self, t, index, level, length)
         ELSE alloc_backtrack(self, t, size, index, level, length)
    ELSE IF _get_index_status(t, index) \in {NODE_USED, NODE_FULL}
    THEN alloc_backtrack(self, t, size, index, level, length)
    ELSE IF _get_index_status(t, index) = NODE_UNUSED
    THEN IF InTree(self.level, index * 2 + 2)
         THEN alloc_walk(self, AllocSplit(t, index), size,
                         index * 2 + 2, level + 1, length \div 2)
         ELSE AllocUndefined(_set_index_status(t, index, NODE_SPLIT))
    ELSE alloc_walk(self, t, size, index * 2 + 1, level + 1, length \div 2)

\* Lines 169-193: one iteration of while (index >= 0).
alloc_walk(self, t, size, index, level, length) ==
    IF index < 0 THEN AllocNull(t)
    ELSE IF ~InTree(self.level, index) THEN AllocUndefined(t)
    ELSE IF size = length
    THEN IF _get_index_status(t, index) = NODE_UNUSED
         THEN AllocTake(self, t, index, level, length)
         ELSE alloc_backtrack(self, t, size, index, level, length)
    ELSE IF _get_index_status(t, index) \in {NODE_USED, NODE_FULL}
    THEN alloc_backtrack(self, t, size, index, level, length)
    ELSE IF _get_index_status(t, index) = NODE_UNUSED
    THEN IF InTree(self.level, index * 2 + 2)
         THEN alloc_walk(self, AllocSplit(t, index), size,
                         index * 2 + 1, level + 1, length \div 2)
         ELSE \* the children of a leaf lie outside the tree
              AllocUndefined(_set_index_status(t, index, NODE_SPLIT))
    ELSE alloc_walk(self, t, size, index * 2 + 1, level + 1, length \div 2)

\* Lines 152-157: the request in units of the minimum block, one value per
\* outcome of next_pow_of_2.
AllocSizes(b, self, s) ==
    IF WordLeq(s, 2^self.min_level) THEN {1}
    ELSE {IntShr(p, self.min_level) : p \in next_pow_of_2(b, U32(s))}

\* AllocSized that searches first and tests the size against the pool last.
AllocSizedLate(self, t, size) ==
    IF size > 2^self.level
    THEN AllocNull(alloc_walk(self, t, size, 0, 0, 2^self.level).tree)
    ELSE alloc_walk(self, t, size, 0, 0, 2^self.level)

\* Lines 159-212 for one rounded size.
AllocSized(self, t, size) ==
    IF size > 2^self.level THEN AllocNull(t)
    ELSE alloc_walk(self, t, size, 0, 0, 2^self.level)

\* buddy_alloc(self, s) on build b: the set of its outcomes.
buddy_alloc(b, self, t, s) ==
    {AllocSized(self, t, size) : size \in AllocSizes(b, self, s)}

(***************************************************************************)
(* buddy_free.  The result is [tree, fate, node]: fate is "freed",         *)
(* "aborted" (an assertion failed) or "undefined"; node is the index the   *)
(* descent stopped at.                                                     *)
(***************************************************************************)
\* CombineDemote that leaves the FULL ancestors FULL.
CombineDemoteNone(t, index) == t

\* CombineDemote that demotes the nearest FULL ancestor only.
CombineDemoteOne(t, index) ==
    IF index >= 0 /\ _get_index_status(t, index) = NODE_FULL
    THEN _set_index_status(t, index, NODE_SPLIT)
    ELSE t

RECURSIVE CombineDemote(_, _)
\* Line 220-222: every FULL ancestor becomes SPLIT.
CombineDemote(t, index) ==
    IF index >= 0 /\ _get_index_status(t, index) = NODE_FULL
    THEN CombineDemote(_set_index_status(t, index, NODE_SPLIT), ParentOf(index))
    ELSE t

RECURSIVE _combine_merge_any(_, _)
\* _combine that merges with every buddy that is not USED.
_combine_merge_any(t, index) ==
    LET buddy == BuddyOf(index)
    IN  IF buddy < 0 \/ _get_index_status(t, buddy) = NODE_USED
        THEN CombineDemote(_set_index_status(t, index, NODE_UNUSED),
                           ParentOf(index))
        ELSE _combine_merge_any(t, ParentOf(index))

\* _combine that merges with an UNUSED buddy once and stops there.
_combine_merge_once(t, index) ==
    IF BuddyOf(index) < 0 \/ _get_index_status(t, BuddyOf(index)) # NODE_UNUSED
    THEN CombineDemote(_set_index_status(t, index, NODE_UNUSED), ParentOf(index))
    ELSE CombineDemote(_set_index_status(t, ParentOf(index), NODE_UNUSED),
                       ParentOf(ParentOf(index)))

\* _combine that frees the block and never merges it with its buddy.
_combine_no_merge(t, index) ==
    CombineDemote(_set_index_status(t, index, NODE_UNUSED), ParentOf(index))

RECURSIVE _combine(_, _)
_combine(t, index) ==
    LET buddy == BuddyOf(index)
    IN  IF buddy < 0 \/ _get_index_status(t, buddy) # NODE_UNUSED
        THEN CombineDemote(_set_index_status(t, index, NODE_UNUSED),
                           ParentOf(index))
        ELSE _combine(t, ParentOf(index))

\* Line 231: (ptr - tree) >> min_level, kept in an int.  d is ptr - tree in
\* bytes; for |d| < 2^31 the unsigned difference, shifted and narrowed to
\* int, is the floor of d / 2^min_level.
FreeOffset(self, d) == d \div 2^self.min_level

RECURSIVE free_walk(_, _, _, _, _, _)
\* Lines 237-256: descend by offset to the first USED node.
free_walk(self, t, offset, left, length, index) ==
    IF ~InTree(self.level, index)
    THEN [tree |-> t, fate |-> "undefined", node |-> index]
    ELSE IF _get_index_status(t, index) = NODE_USED
    THEN IF offset = left
         THEN [tree |-> _combine(t, index), fate |-> "freed", node |-> index]
         ELSE [tree |-> t, fate |-> "aborted", node |-> index]
    ELSE IF _get_index_status(t, index) = NODE_UNUSED
    THEN [tree |-> t, fate |-> "aborted", node |-> index]
    ELSE IF offset < left + (length \div 2)
    THEN free_walk(self, t, offset, left, length \div 2, index * 2 + 1)
    ELSE free_walk(self, t, offset, left + (length \div 2), length \div 2,
                   index * 2 + 2)

buddy_free(self, t, d) ==
    IF FreeOffset(self, d) >= 0 /\ FreeOffset(self, d) < 2^self.level
    THEN free_walk(self, t, FreeOffset(self, d), 0, 2^self.level, 0)
    ELSE [tree |-> t, fate |-> "aborted", node |-> NULL]

(***************************************************************************)
(* The program state.                                                      *)
(***************************************************************************)
VARIABLES
    build,  \* the build target the program was compiled for
    phase,  \* "start", "ready", "failed" (the constructor returned NULL),
            \* "aborted" (an assertion failed), "undefined", "destroyed"
    args,   \* the constructor's arguments [level, min_level]
    ctl,    \* struct buddy: [level (uint32_t bits), min_level, destructor]
    tree,   \* struct buddy's tree[]: byte index -> byte
    buf,    \* the buffer: [owner, state, written]
    live,   \* the bag of blocks handed out and not freed:
            \* [off, bytes, node, owner], owner "pool" or "caller"
    last,   \* the last call: [op, s, d, ret, bytes, node]
    frame   \* the call in progress, when its loops are run step by step

vars == <<build, phase, args, ctl, tree, buf, live, last, frame>>

\* The pool as buddy_alloc and buddy_free read it (phase "ready").
Pool == [min_level |-> ctl.min_level, level |-> Val(ctl.level)]

Call(op, s, d, ret, bytes, node) ==
    [op |-> op, s |-> s, d |-> d, ret |-> ret, bytes |-> bytes, node |-> node]

\* The constructor's arguments: valid pools of level 2 and 3, and pairs it
\* must reject, among them pairs with level < min_level.
TotalLevels == 3..7
MinLevels == 3..5
CtorArgs == {[level |-> l, min_level |-> m] : l \in TotalLevels, m \in MinLevels}

\* The most blocks the caller holds at once.
MaxLive == 6

CallerLive == {b \in BagToSet(live) : b.owner = "caller"}

\* offsetof(struct buddy, tree): min_level, level and the destructor pointer
\* (8 bytes on every build here) lie in front of tree[].
HeaderBytes == 4 + 4 + 8

\* Line 75: the buffer buddy_new allocates, malloc(1 << level).
BufferBytes(a) == 2^a.level

EmptyTree == [i \in {} |-> 0]

\* No call is in progress.  pc names the loop a call is in; s, size, index,
\* level, length are buddy_alloc's locals, ptr, offset, left, length, index
\* buddy_free's; node is the node taken or found; steps counts the loop
\* iterations of the call; wtree and wret are the tree and the result the
\* call is to leave according to buddy_alloc and buddy_free above.
NoFrame ==
    [pc |-> "idle", s |-> {}, size |-> 0, index |-> 0, level |-> 0,
     length |-> 0, ptr |-> 0, offset |-> 0, left |-> 0, node |-> NULL,
     steps |-> 0, wtree |-> EmptyTree, wret |-> NULL]

NoCtl == [level |-> {}, min_level |-> 0, destructor |-> "none"]

(***************************************************************************)
(* Construction.                                                           *)
(***************************************************************************)
\* Line 61: the test that makes buddy_from_buffer return NULL; level is the
\* unsigned difference stored in self->level.
CtorRejects(level, min_level) == level \subseteq {0} \/ min_level < 4

\* Line 66: 1 << (self->level - 1) is defined on int for counts 0..30.
MdSizeDefined(level) == MaxBit(level) <= 30 /\ Val(level) - 1 <= 30

\* The bytes of tree[] that hold the statuses of the pool's nodes.
TreeBytes(level) == (NodeCount(level) + 3) \div 4

\* What the buffer may hold where the tree will be, before construction.
PriorBytes == {0, 27, 85, 170, 255}
PriorTrees(level) == [0..(TreeBytes(level) - 1) -> PriorBytes]

\* CtorMemset that leaves the buffer as it was.
CtorMemsetNone(prior, md_size) == prior

\* Line 67: memset(self->tree, 0, md_size) over what the buffer held.
CtorMemset(prior, md_size) ==
    [i \in DOMAIN prior |-> IF i < md_size THEN 0 ELSE prior[i]]

\* Lines 66-69 over a buffer that held prior: the zeroed tree and the
\* internal allocation of its own md_size bytes.
CtorAllocOver(b, level, min_level, prior) ==
    LET self == [min_level |-> min_level, level |-> Val(level)]
        md_size == 2^(Val(level) - 1)
    IN  CHOOSE r \in buddy_alloc(b, self, CtorMemset(prior, md_size),
                                 Bits(md_size)) : TRUE

\* CtorAlloc without the internal allocation: the tree is only zeroed.
CtorAllocNone(b, level, min_level) ==
    AllocNull([i \in 0..(2^(Val(level) - 1) - 1) |-> 0])

\* Lines 66-69 over a buffer that held zeros.
CtorAlloc(b, level, min_level) ==
    CtorAllocOver(b, level, min_level,
                  [i \in 0..(TreeBytes(Val(level)) - 1) |-> 0])

\* buddy_from_buffer(level, min_level, buffer, destructor), lines 58-70, on
\* build b: the pool state [phase, ctl, tree, live, buf] it leaves.  The
\* destructor and the level are stored before the arguments are tested.
buddy_from_buffer(b, a, owner, destructor) ==
    LET level == Sub32(a.level, a.min_level)
        held == [owner |-> owner, state |-> "held", written |-> TRUE]
    IN  IF CtorRejects(level, a.min_level)
        THEN [phase |-> "failed",
              ctl |-> [NoCtl EXCEPT !.destructor = destructor, !.level = level],
              tree |-> EmptyTree, live |-> EmptyBag, buf |-> held]
        ELSE IF ~MdSizeDefined(level)
        THEN [phase |-> "undefined",
              ctl |-> [level |-> level, min_level |-> a.min_level,
                       destructor |-> destructor],
              tree |-> EmptyTree, live |-> EmptyBag, buf |-> held]
        ELSE [phase |-> "ready",
              ctl |-> [level |-> level, min_level |-> a.min_level,
                       destructor |-> destructor],
              tree |-> CtorAlloc(b, level, a.min_level).tree,
              live |-> SetToBag({[off   |-> CtorAlloc(b, level, a.min_level).ret,
                                  bytes |-> CtorAlloc(b, level, a.min_level).bytes,
                                  node  |-> CtorAlloc(b, level, a.min_level).node,
                                  owner |-> "pool"]}),
              buf |-> held]

\* buddy_new(level, min_level), lines 73-81, when malloc succeeds.
buddy_new(b, a) == buddy_from_buffer(b, a, "heap", "free")

\* The pool is in the state c that a constructor call left.
Constructed(c) ==
    /\ phase = c.phase
    /\ ctl = c.ctl
    /\ tree = c.tree
    /\ live = c.live
    /\ buf = c.buf

\* A constructor call leaves the state c.
Construct(c) ==
    /\ phase' = c.phase
    /\ ctl' = c.ctl
    /\ tree' = c.tree
    /\ live' = c.live
    /\ buf' = c.buf

\* Before construction: the caller holds the arguments and a buffer.
InitStart ==
    /\ build \in Builds
    /\ phase = "start"
    /\ args \in CtorArgs
    /\ ctl = NoCtl
    /\ tree = EmptyTree
    /\ buf = [owner |-> "caller", state |-> "held", written |-> FALSE]
    /\ live = EmptyBag
    /\ last = Call("none", {}, 0, NULL, 0, NULL)
    /\ frame = NoFrame

\* After construction: a pool that buddy_new returned.
Init ==
    /\ build \in Builds
    /\ args \in CtorArgs
    /\ buddy_new(build, args).phase = "ready"
    /\ Constructed(buddy_new(build, args))
    /\ last = Call("new", {}, 0, NULL, 0, NULL)
    /\ frame = NoFrame

\* The caller builds the pool over a buffer of its own, without destructor.
FromBuffer ==
    /\ phase = "start"
    /\ Construct(buddy_from_buffer(build, args, "caller", "none"))
    /\ last' = Call("from_buffer", {}, 0, NULL, 0, NULL)
    /\ UNCHANGED <<build, args, frame>>

New ==
    /\ phase = "start"
    /\ Construct(buddy_new(build, args))
    /\ last' = Call("new", {}, 0, NULL, 0, NULL)
    /\ UNCHANGED <<build, args, frame>>

\* buddy_new when malloc returns NULL, lines 76-78.
NewNoMemory ==
    /\ phase = "start"
    /\ phase' = "failed"
    /\ buf' = [owner |-> "none", state |-> "none", written |-> FALSE]
    /\ last' = Call("new", {}, 0, NULL, 0, NULL)
    /\ UNCHANGED <<build, args, ctl, tree, live, frame>>

\* buddy_destroy(self), lines 83-88.
Destroy ==
    /\ phase = "ready"
    /\ phase' = "destroyed"
    /\ buf' = IF ctl.destructor = "none" THEN buf
              ELSE [buf EXCEPT !.state = "released"]
    /\ last' = Call("destroy", {}, 0, NULL, 0, NULL)
    /\ UNCHANGED <<build, args, ctl, tree, live, frame>>

(***************************************************************************)
(* Calls on a ready pool.                                                  *)
(***************************************************************************)
\* buddy_alloc(self, s) with outcome r.
AllocOutcome(s, r) ==
    /\ tree' = r.tree
    /\ phase' = IF r.ub THEN "undefined" ELSE "ready"
    /\ live' = IF r.ub \/ r.ret = NULL THEN live
               ELSE live (+) SetToBag({[off |-> r.ret, bytes |-> r.bytes,
                                        node |-> r.node, owner |-> "caller"]})
    /\ last' = Call("alloc", s, 0, r.ret, r.bytes, r.node)
    /\ UNCHANGED <<build, args, ctl, buf, frame>>

Alloc(s) ==
    /\ phase = "ready"
    /\ \E r \in buddy_alloc(build, Pool, tree, s) : AllocOutcome(s, r)

\* buddy_free(self, tree + d).
Free(d) ==
    /\ phase = "ready"
    /\ LET r == buddy_free(Pool, tree, d)
       IN  /\ tree' = r.tree
           /\ phase' = IF r.fate = "freed" THEN "ready" ELSE r.fate
           /\ live' = IF r.fate = "freed"
                      THEN [b \in {x \in BagToSet(live) : x.node # r.node}
                                |-> live[b]]
                      ELSE live
           /\ last' = Call("free", {}, d, NULL, 0, r.node)
    /\ UNCHANGED <<build, args, ctl, buf, frame>>

\* The request sizes of a pool: around every block size, and one past the
\* pool's capacity.  As words: 1 is {0}, 2^k is {k}, 2^k + 1 is {0, k}.
Requests(self) ==
    {{0}}
    \cup {{k} : k \in self.min_level..(self.min_level + self.level + 1)}
    \cup {{0, k} : k \in self.min_level..(self.min_level + self.level)}

\* A request whose rounding is defined behaviour on this build.
AllocRequest ==
    /\ phase = "ready"
    /\ Cardinality(CallerLive) < MaxLive
    /\ \E s \in Requests(Pool) :
           /\ RoundingDefined(build, ctl.min_level, s)
           /\ Alloc(s)

\* The caller frees a pointer it holds.
FreeLive ==
    /\ phase = "ready"
    /\ \E b \in CallerLive : Free(b.off)

Next ==
    \/ AllocRequest
    \/ FreeLive
    \/ Destroy

Spec == Init /\ [][Next]_vars

\* Construction and teardown alone, from the constructor's arguments.
NextCtor ==
    \/ FromBuffer
    \/ New
    \/ NewNoMemory
    \/ Destroy

SpecCtor == InitStart /\ [][NextCtor]_vars

(***************************************************************************)
(* Calls with any argument: requests up to and beyond 2^32 bytes, whatever *)
(* next_pow_of_2 makes of them, and frees of pointers the caller was never *)
(* given.                                                                  *)
(***************************************************************************)
WideRequests(self) ==
    Requests(self)
    \cup {{31}, {31, 0}, 0..31, {32}, {32, self.min_level},
          {32, self.min_level, 0}, {33}}

\* Byte offsets from the tree: each unit of the pool, the unit before and
\* the unit after it, at the unit's first and second byte.  Offset 0, the
\* pool's own reservation, is left out.
WildOffsets(self) ==
    {k * 2^self.min_level + e : k \in (-1)..(2^self.level), e \in {0, 1}} \ {0}

\* The most blocks the caller holds at once when it calls with any argument.
MaxLiveWild == 2

AllocWide ==
    /\ phase = "ready"
    /\ Cardinality(CallerLive) < MaxLiveWild
    /\ \E s \in WideRequests(Pool) : Alloc(s)

FreeWild ==
    /\ phase = "ready"
    /\ \E d \in WildOffsets(Pool) : Free(d)

NextWild ==
    \/ AllocWide
    \/ FreeWild

SpecWild == Init /\ [][NextWild]_vars

(***************************************************************************)
(* The loops of buddy_alloc and buddy_free run one iteration at a time.    *)
(* A call is entered from the idle frame, each action below is one         *)
(* iteration of one loop, and the call returns to the idle frame.          *)
(***************************************************************************)
\* The most blocks the caller holds at once when the loops are stepped.
MaxLiveSteps == 3

\* The frame after a return: idle, with the count of the call's iterations
\* and what the call was to leave.
Returned ==
    [NoFrame EXCEPT !.steps = frame.steps + 1,
                    !.wtree = frame.wtree, !.wret = frame.wret]

\* Lines 152-167: the size, the test against the pool, index = level = 0.
StepAllocCall ==
    /\ phase = "ready"
    /\ frame.pc = "idle"
    /\ Cardinality(CallerLive) < MaxLiveSteps
    /\ \E s \in Requests(Pool) : \E size \in AllocSizes(build, Pool, s) :
           /\ RoundingDefined(build, ctl.min_level, s)
           /\ IF size > 2^Pool.level
              THEN /\ frame' = [NoFrame EXCEPT !.wtree = tree]
                   /\ last' = Call("alloc", s, 0, NULL, 0, NULL)
              ELSE /\ frame' = [NoFrame EXCEPT
                                   !.pc = "alloc_while", !.s = s, !.size = size,
                                   !.length = 2^Pool.level,
                                   !.wtree = AllocSized(Pool, tree, size).tree,
                                   !.wret = AllocSized(Pool, tree, size).ret]
                   /\ last' = last
    /\ UNCHANGED <<build, phase, args, ctl, tree, buf, live>>

\* Lines 194-197: after a node that cannot serve the request.
StepBacktrack ==
    IF frame.index % 2 = 1
    THEN [frame EXCEPT !.index = frame.index + 1, !.steps = frame.steps + 1]
    ELSE [frame EXCEPT !.pc = "alloc_for", !.steps = frame.steps + 1]

\* Lines 188-191: into the left child.
StepDescend ==
    [frame EXCEPT !.index = frame.index * 2 + 1,
                  !.length = frame.length \div 2,
                  !.level = frame.level + 1,
                  !.steps = frame.steps + 1]

\* Lines 169-197: one iteration of while (index >= 0).
StepAllocWhile ==
    /\ phase = "ready"
    /\ frame.pc = "alloc_while"
    /\ LET index == frame.index
           status == _get_index_status(tree, index)
       IN  IF ~InTree(Pool.level, index)
           THEN /\ phase' = "undefined"
                /\ frame' = Returned
                /\ tree' = tree
           ELSE IF frame.size = frame.length
           THEN IF status = NODE_UNUSED
                THEN /\ tree' = _set_index_status(tree, index, NODE_USED)
                     /\ frame' = [frame EXCEPT
                                     !.pc = "mark_parent", !.node = index,
                                     !.ptr = _index_offset(Pool.min_level, index,
                                                           frame.level, Pool.level),
                                     !.steps = frame.steps + 1]
                     /\ phase' = phase
                ELSE /\ frame' = StepBacktrack
                     /\ UNCHANGED <<tree, phase>>
           ELSE IF status \in {NODE_USED, NODE_FULL}
           THEN /\ frame' = StepBacktrack
                /\ UNCHANGED <<tree, phase>>
           ELSE IF status = NODE_UNUSED
           THEN IF InTree(Pool.level, index * 2 + 2)
                THEN /\ tree' = AllocSplit(tree, index)
                     /\ frame' = StepDescend
                     /\ phase' = phase
                ELSE /\ tree' = _set_index_status(tree, index, NODE_SPLIT)
                     /\ frame' = Returned
                     /\ phase' = "undefined"
           ELSE /\ frame' = StepDescend
                /\ UNCHANGED <<tree, phase>>
    /\ UNCHANGED <<build, args, ctl, buf, live, last>>

\* StepAllocFor that starts the search again at the root when the climb has
\* passed the root.
StepAllocForAgain ==
    /\ phase = "ready"
    /\ frame.pc = "alloc_for"
    /\ LET up == ParentOf(frame.index)
       IN  frame' = IF up < 0
                    THEN [frame EXCEPT !.pc = "alloc_while", !.index = 0,
                                       !.level = 0,
                                       !.length = 2^Pool.level,
                                       !.steps = 0]
                    ELSE IF up % 2 = 1
                    THEN [frame EXCEPT !.pc = "alloc_while", !.index = up + 1,
                                       !.level = frame.level - 1,
                                       !.length = frame.length * 2]
                    ELSE [frame EXCEPT !.index = up,
                                       !.level = frame.level - 1,
                                       !.length = frame.length * 2]
    /\ UNCHANGED <<build, phase, args, ctl, tree, buf, live, last>>

\* Lines 198-208: one iteration of the inner for (;;).
StepAllocFor ==
    /\ phase = "ready"
    /\ frame.pc = "alloc_for"
    /\ LET up == ParentOf(frame.index)
       IN  IF up < 0
           THEN /\ frame' = Returned
                /\ last' = Call("alloc", frame.s, 0, NULL, 0, NULL)
           ELSE /\ frame' = [frame EXCEPT
                                !.pc = IF up % 2 = 1 THEN "alloc_while"
                                       ELSE "alloc_for",
                                !.index = IF up % 2 = 1 THEN up + 1 ELSE up,
                                !.level = frame.level - 1,
                                !.length = frame.length * 2,
                                !.steps = frame.steps + 1]
                /\ last' = last
    /\ UNCHANGED <<build, phase, args, ctl, tree, buf, live>>

\* Lines 139-147: one iteration of _mark_parent's for (;;); line 174 when it
\* returns.
StepMarkParent ==
    /\ phase = "ready"
    /\ frame.pc = "mark_parent"
    /\ LET buddy == BuddyOf(frame.index)
       IN  IF /\ buddy > 0
              /\ _get_index_status(tree, buddy) \in {NODE_USED, NODE_FULL}
           THEN /\ tree' = _set_index_status(tree, ParentOf(frame.index),
                                             NODE_FULL)
                /\ frame' = [frame EXCEPT !.index = ParentOf(frame.index),
                                          !.steps = frame.steps + 1]
                /\ UNCHANGED <<live, last>>
           ELSE /\ tree' = tree
                /\ frame' = Returned
                /\ live' = live (+) SetToBag({[off |-> frame.ptr,
                                               bytes |-> frame.length * 2^Pool.min_level,
                                               node |-> frame.node,
                                               owner |-> "caller"]})
                /\ last' = Call("alloc", frame.s, 0, frame.ptr,
                                frame.length * 2^Pool.min_level, frame.node)
    /\ UNCHANGED <<build, phase, args, ctl, buf>>

\* Lines 231-235: the offset and its assertion, for a pointer the caller
\* holds.
StepFreeCall ==
    /\ phase = "ready"
    /\ frame.pc = "idle"
    /\ \E b \in CallerLive :
           IF FreeOffset(Pool, b.off) >= 0 /\ FreeOffset(Pool, b.off) < 2^Pool.level
           THEN /\ frame' = [NoFrame EXCEPT
                                !.pc = "free_for", !.ptr = b.off,
                                !.offset = FreeOffset(Pool, b.off),
                                !.length = 2^Pool.level,
                                !.wtree = buddy_free(Pool, tree, b.off).tree]
                /\ phase' = phase
           ELSE /\ frame' = [NoFrame EXCEPT !.wtree = tree]
                /\ phase' = "aborted"
    /\ UNCHANGED <<build, args, ctl, tree, buf, live, last>>

\* Lines 237-256: one iteration of buddy_free's for (;;).
StepFreeFor ==
    /\ phase = "ready"
    /\ frame.pc = "free_for"
    /\ LET index == frame.index
           half == frame.length \div 2
       IN  IF ~InTree(Pool.level, index)
           THEN /\ phase' = "undefined"
                /\ frame' = Returned
           ELSE IF _get_index_status(tree, index) = NODE_USED
           THEN IF frame.offset = frame.left
                THEN /\ frame' = [frame EXCEPT !.pc = "combine_for",
                                               !.node = index,
                                               !.steps = frame.steps + 1]
                     /\ phase' = phase
                ELSE /\ phase' = "aborted"
                     /\ frame' = Returned
           ELSE IF _get_index_status(tree, index) = NODE_UNUSED
           THEN /\ phase' = "aborted"
                /\ frame' = Returned
           ELSE /\ frame' = IF frame.offset < frame.left + half
                            THEN [frame EXCEPT !.length = half,
                                               !.index = index * 2 + 1,
                                               !.steps = frame.steps + 1]
                            ELSE [frame EXCEPT !.length = half,
                                               !.left = frame.left + half,
                                               !.index = index * 2 + 2,
                                               !.steps = frame.steps + 1]
                /\ phase' = phase
    /\ UNCHANGED <<build, args, ctl, tree, buf, live, last>>

\* Lines 216-226: one iteration of _combine's for (;;).
StepCombineFor ==
    /\ phase = "ready"
    /\ frame.pc = "combine_for"
    /\ LET buddy == BuddyOf(frame.index)
       IN  IF buddy < 0 \/ _get_index_status(tree, buddy) # NODE_UNUSED
           THEN /\ tree' = _set_index_status(tree, frame.index, NODE_UNUSED)
                /\ frame' = [frame EXCEPT !.pc = "combine_while",
                                          !.steps = frame.steps + 1]
           ELSE /\ tree' = tree
                /\ frame' = [frame EXCEPT !.index = ParentOf(frame.index),
                                          !.steps = frame.steps + 1]
    /\ UNCHANGED <<build, phase, args, ctl, buf, live, last>>

\* Lines 220-223: one test of _combine's while, its body, and the return.
StepCombineWhile ==
    /\ phase = "ready"
    /\ frame.pc = "combine_while"
    /\ LET up == ParentOf(frame.index)
       IN  IF up >= 0 /\ _get_index_status(tree, up) = NODE_FULL
           THEN /\ tree' = _set_index_status(tree, up, NODE_SPLIT)
                /\ frame' = [frame EXCEPT !.index = up,
                                          !.steps = frame.steps + 1]
                /\ UNCHANGED <<live, last>>
           ELSE /\ tree' = tree
                /\ frame' = Returned
                /\ live' = [b \in {x \in BagToSet(live) : x.node # frame.node}
                                |-> live[b]]
                /\ last' = Call("free", {}, frame.ptr, NULL, 0, frame.node)
    /\ UNCHANGED <<build, phase, args, ctl, buf>>

\* The iterations of a call in progress.
StepRun ==
    \/ StepAllocWhile
    \/ StepAllocFor
    \/ StepMarkParent
    \/ StepFreeFor
    \/ StepCombineFor
    \/ StepCombineWhile

NextSteps ==
    \/ StepAllocCall
    \/ StepFreeCall
    \/ StepAllocWhile
    \/ StepAllocFor
    \/ StepMarkParent
    \/ StepFreeFor
    \/ StepCombineFor
    \/ StepCombineWhile

\* The pool is used by one thread and every call is synchronous: a call in
\* progress goes on to its next iteration.
SpecSteps == Init /\ [][NextSteps]_vars /\ WF_vars(StepRun)

\* Run step by step, a call leaves the tree and returns the result that
\* buddy_alloc and buddy_free above give for the whole call.
StepsMatchCalls ==
    (phase = "ready" /\ frame.pc = "idle" /\ last.op \in {"alloc", "free"}) =>
        /\ tree = frame.wtree
        /\ last.op = "alloc" => last.ret = frame.wret

(***************************************************************************)
(* What the claims speak of.                                               *)
(***************************************************************************)
\* Two byte ranges [off, off + bytes) share no byte.
Disjoint(a, b) == a.off + a.bytes <= b.off \/ b.off + b.bytes <= a.off

\* The size in bytes a request of s bytes is to be served with: the minimum
\* block, or s rounded up to a power of two (s below 2^30).
RoundedBytes(self, s) ==
    LET n == Val(s)
    IN  IF n <= 2^self.min_level THEN 2^self.min_level
        ELSE 2^(CHOOSE k \in 0..30 : 2^k >= n /\ (k = 0 \/ 2^(k - 1) < n))

PoolBytes(self) == 2^(self.min_level + self.level)

\* The offsets of the aligned blocks of the given size none of whose bytes
\* lies in a live block.
FreeBlocks(self, blocks, bytes) ==
    {o \in {k * bytes : k \in 0..((PoolBytes(self) \div bytes) - 1)} :
        \A b \in blocks : Disjoint([off |-> o, bytes |-> bytes], b)}

\* The requests of the pool whose rounding is defined and fits the pool.
FittingRequests ==
    {s \in Requests(Pool) :
        /\ RoundingDefined(build, ctl.min_level, s)
        /\ RoundedBytes(Pool, s) <= PoolBytes(Pool)}

\* The nodes whose ancestors are all SPLIT or FULL: the part of the tree the
\* searches read.
RECURSIVE Reachable(_, _, _)
Reachable(level, t, index) ==
    IF ~InTree(level, index) THEN {}
    ELSE IF _get_index_status(t, index) \in {NODE_SPLIT, NODE_FULL}
    THEN {index} \cup Reachable(level, t, index * 2 + 1)
                 \cup Reachable(level, t, index * 2 + 2)
    ELSE {index}

LiveTree(level, t) ==
    [n \in Reachable(level, t, 0) |-> _get_index_status(t, n)]

\* C1: any two live blocks, the tree's own reservation among them, occupy
\* disjoint byte ranges; no block is handed out twice.
C1_NonOverlap ==
    \A a \in BagToSet(live) : \A b \in BagToSet(live) :
        (a # b \/ live[a] > 1) => Disjoint(a, b)

C1_Witness ==
    /\ phase = "ready"
    /\ last.op = "alloc"
    /\ last.ret # NULL
    /\ Cardinality(CallerLive) >= 3

\* C2: a request whose rounded size fits the pool returns NULL exactly when
\* no aligned block of the rounded size has all its bytes free.
C2_NullIffNoFreeBlock ==
    phase = "ready" =>
        \A s \in FittingRequests :
            \A r \in buddy_alloc(build, Pool, tree, s) :
                /\ ~r.ub
                /\ (r.ret = NULL) <=>
                       (FreeBlocks(Pool, BagToSet(live), RoundedBytes(Pool, s)) = {})

C2_Witness ==
    /\ phase = "ready"
    /\ last.op = "alloc"
    /\ last.ret = NULL
    /\ last.s \in FittingRequests
    /\ RoundedBytes(Pool, last.s) * 4 <= PoolBytes(Pool)
    /\ Cardinality(CallerLive) >= 2
    /\ \E s \in FittingRequests :
           FreeBlocks(Pool, BagToSet(live), RoundedBytes(Pool, s)) # {}

C5_NullLeavesTree ==
    phase = "ready" =>
        \A s \in Requests(Pool) :
            RoundingDefined(build, ctl.min_level, s) =>
                \A r \in buddy_alloc(build, Pool, tree, s) :
                    (r.ret = NULL /\ ~r.ub) => r.tree = tree

C5_Witness ==
    /\ phase = "ready"
    /\ last.op = "alloc"
    /\ last.ret = NULL
    /\ last.s \in FittingRequests
    /\ RoundedBytes(Pool, last.s) * 2 <= PoolBytes(Pool)
    /\ Cardinality(CallerLive) >= 2
    /\ \E n \in Reachable(Pool.level, tree, 0) :
           _get_index_status(tree, n) = NODE_UNUSED

\* The pool's own block at offset 0 covers the tree bytes and is USED in t.
ReservedIn(t) ==
    \E b \in BagToSet(live) :
        /\ b.owner = "pool"
        /\ b.off = 0
        /\ b.bytes >= 2^(Pool.level - 1)
        /\ b.node \in Reachable(Pool.level, t, 0)
        /\ _get_index_status(t, b.node) = NODE_USED

\* Every pointer the caller can ever have been given: the first byte of a
\* unit of the pool other than the unit at offset 0.
CallerPointers(self) == {k * 2^self.min_level : k \in 1..(2^self.level - 1)}

\* C10: while the pool is in use the block at offset 0 that covers the tree
\* bytes stays USED and no block of the caller reaches into the tree bytes;
\* a free of a pointer the caller holds or once held either fails its
\* assertion or frees a block of the caller, and leaves the reservation.
C10_TreeReserved ==
    phase = "ready" =>
        /\ ReservedIn(tree)
        /\ \A b \in CallerLive : b.off >= 2^(Pool.level - 1)
        /\ \A d \in CallerPointers(Pool) :
               /\ buddy_free(Pool, tree, d).fate \in {"freed", "aborted"}
               /\ buddy_free(Pool, tree, d).fate = "freed" =>
                      /\ d \in {b.off : b \in CallerLive}
                      /\ ReservedIn(buddy_free(Pool, tree, d).tree)

C10_Witness ==
    /\ phase = "ready"
    /\ last.op = "free"
    /\ Cardinality(CallerLive) >= 2
    /\ \E b \in CallerLive : b.off = 2^Pool.min_level

\* The block size a request of s bytes is to be served with, as a word: the
\* minimum block, or s rounded up to the next power of two.
RoundedWord(min_level, s) ==
    IF WordLeq(s, 2^min_level) THEN {min_level}
    ELSE IF Cardinality(s) = 1 THEN s
    ELSE {MaxBit(s) + 1}

\* The request exceeds the pool's capacity of 2^total_level bytes.
Oversize(self, s) == ~WordLeq(s, PoolBytes(self))

\* C3: every successful buddy_alloc(self, s) marks USED a block of
\* 2^min_level bytes when s <= 2^min_level, and otherwise of s rounded up to
\* the next power of two, so never a block smaller than s.
C3_BlockIsRoundedRequest ==
    (phase = "ready" /\ last.op = "alloc" /\ last.ret # NULL) =>
        Bits(last.bytes) = RoundedWord(ctl.min_level, last.s)

\* C6: buddy_alloc of more bytes than the pool's capacity returns NULL and
\* leaves the status tree as it was.
C6_OversizeRejected ==
    [][(last'.op = "alloc" /\ Oversize(Pool, last'.s)) =>
          (phase' = "ready" /\ last'.ret = NULL /\ tree' = tree)]_vars

\* C7: the constructor returns NULL exactly for the pairs with
\* total_level - min_level < 2 or min_level < 4 (when memory is there).
C7_CtorValidates ==
    (phase \in {"failed", "ready", "undefined"} /\ buf.owner # "none") =>
        ((args.level - args.min_level < 2 \/ args.min_level < 4)
            <=> phase = "failed")

\* C8: when construction fails on its arguments nothing is held: the buffer
\* buddy_new allocated is released, and a buffer of the caller is unwritten.
C8_FailedCtorHoldsNothing ==
    (phase = "failed" /\ buf.owner # "none") =>
        /\ buf.owner = "heap" => buf.state = "released"
        /\ buf.owner = "caller" => ~buf.written

\* C9: buddy_free of a pointer that is not the first byte of a live block ends
\* in the assertion failure, with the tree as it was.
C9_InvalidFreeIsFatal ==
    [][(last'.op = "free" /\ last'.d \notin {b.off : b \in BagToSet(live)}) =>
          (phase' = "aborted" /\ tree' = tree)]_vars

\* The depth of a node (the root has depth 0) and the bytes of its block.
Depth(index) == CHOOSE d \in 0..30 : 2^d <= index + 1 /\ index + 1 < 2^(d + 1)

NodeBytes(self, index) == 2^(self.min_level + self.level - Depth(index))

\* C11: when a live block of the caller is freed while its buddy is UNUSED,
\* the buddy_alloc that follows at once for the two blocks' combined size
\* returns a block.
C11_CoalescedPairAllocates ==
    phase = "ready" =>
        \A b \in CallerLive :
            (b.node > 0 /\ _get_index_status(tree, BuddyOf(b.node)) = NODE_UNUSED) =>
                LET freed == buddy_free(Pool, tree, b.off)
                IN  /\ freed.fate = "freed"
                    /\ \A r \in buddy_alloc(build, Pool, freed.tree,
                                            Bits(2 * b.bytes)) :
                           ~r.ub /\ r.ret # NULL

\* A free has just merged a block with its UNUSED buddy, and the merged pair
\* is the only free block of the combined size.
C11_Witness ==
    /\ phase = "ready"
    /\ last.op = "free"
    /\ last.node > 0
    /\ CallerLive # {}
    /\ ParentOf(last.node) \in Reachable(Pool.level, tree, 0)
    /\ _get_index_status(tree, ParentOf(last.node)) = NODE_UNUSED
    /\ Cardinality(FreeBlocks(Pool, BagToSet(live),
                              2 * NodeBytes(Pool, last.node))) = 1
    /\ \A r \in buddy_alloc(build, Pool, tree,
                            Bits(2 * NodeBytes(Pool, last.node))) :
           r.node = ParentOf(last.node)

\* C12: a buddy_alloc that returns a block returns the lowest offset among
\* the aligned blocks of the rounded size whose bytes were all free before
\* the call: the result is decided by the set of live blocks.
C12_LeftmostFirst ==
    phase = "ready" =>
        \A s \in FittingRequests :
            \A r \in buddy_alloc(build, Pool, tree, s) :
                r.ret # NULL =>
                    LET free == FreeBlocks(Pool, BagToSet(live), r.bytes)
                    IN  /\ r.bytes = RoundedBytes(Pool, s)
                        /\ r.ret \in free
                        /\ \A o \in free : r.ret <= o

\* The last buddy_alloc filled a hole below a live block while a free block
\* of the same size was left further right.
C12_Witness ==
    /\ phase = "ready"
    /\ last.op = "alloc"
    /\ last.ret # NULL
    /\ \E b \in CallerLive : b.off > last.ret
    /\ \E o \in FreeBlocks(Pool, BagToSet(live), last.bytes) : o > last.ret

\* C13: pools of the same (total_level, min_level) given the same calls in
\* the same order return the same offsets and NULLs.  Stated inductively:
\* the constructor leaves the same pool whatever the buffer held and
\* whatever the build, and in every state every request has one outcome,
\* the same on every build; buddy_free reads the pool and its argument only.
C13_Deterministic ==
    phase = "ready" =>
        /\ last.op = "new" =>
               \A b \in Builds : \A g \in PriorTrees(Pool.level) :
                   /\ CtorAllocOver(b, ctl.level, ctl.min_level, g).tree = tree
                   /\ CtorAllocOver(b, ctl.level, ctl.min_level, g).ret = 0
        /\ \A s \in Requests(Pool) :
               RoundingDefined(build, ctl.min_level, s) =>
                   LET here == buddy_alloc(build, Pool, tree, s)
                   IN  /\ Cardinality(here) = 1
                       /\ \A b \in Builds \ {build} :
                              RoundingDefined(b, ctl.min_level, s) =>
                                  buddy_alloc(b, Pool, tree, s) = here

\* After several calls, a request that is no power of two, rounded by the
\* count of leading zeros on this build and by smearing on another, has just
\* been served.
C13_Witness ==
    /\ phase = "ready"
    /\ build = "gnuc_llp64"
    /\ last.op = "alloc"
    /\ last.ret # NULL
    /\ ~is_pow_of_2(U32(last.s))
    /\ MaxBit(last.s) > ctl.min_level
    /\ Cardinality(CallerLive) >= 2
    /\ tree # buddy_new(build, args).tree

\* The statuses of the two children of a node.
ChildStatuses(t, index) ==
    {_get_index_status(t, index * 2 + 1), _get_index_status(t, index * 2 + 2)}

\* C14: between calls, every node reachable from the root through SPLIT and
\* FULL nodes is FULL only if both its children are USED or FULL, SPLIT only
\* if a child of it is UNUSED or SPLIT, and neither at the maximum depth.
C14_StatusConsistent ==
    phase = "ready" =>
        \A n \in Reachable(Pool.level, tree, 0) :
            /\ _get_index_status(tree, n) = NODE_FULL =>
                   /\ Depth(n) < Pool.level
                   /\ ChildStatuses(tree, n) \subseteq {NODE_USED, NODE_FULL}
            /\ _get_index_status(tree, n) = NODE_SPLIT =>
                   /\ Depth(n) < Pool.level
                   /\ ChildStatuses(tree, n) \cap {NODE_UNUSED, NODE_SPLIT} # {}

\* A FULL node above a FULL child and a SPLIT node above a SPLIT child, after
\* a call of the caller.
C14_Witness ==
    /\ phase = "ready"
    /\ last.op \in {"alloc", "free"}
    /\ \E n \in Reachable(Pool.level, tree, 0) :
           /\ _get_index_status(tree, n) = NODE_FULL
           /\ NODE_FULL \in ChildStatuses(tree, n)
    /\ \E n \in Reachable(Pool.level, tree, 0) :
           /\ _get_index_status(tree, n) = NODE_SPLIT
           /\ ChildStatuses(tree, n) = {NODE_SPLIT, NODE_FULL}

\* The ancestors of a node, up to the root.
RECURSIVE Ancestors(_)
Ancestors(index) ==
    IF index <= 0 THEN {}
    ELSE {ParentOf(index)} \cup Ancestors(ParentOf(index))

\* No reachable SPLIT node of t has two UNUSED children.
Coalesced(level, t) ==
    \A n \in Reachable(level, t, 0) :
        _get_index_status(t, n) = NODE_SPLIT =>
            ChildStatuses(t, n) # {NODE_UNUSED}

\* C15: after every buddy_alloc and buddy_free no reachable SPLIT node has
\* two UNUSED children; a free leaves the freed block inside one UNUSED node
\* that cannot be merged further and leaves no ancestor of the block FULL.
C15_MaximalCoalescing ==
    phase = "ready" =>
        /\ Coalesced(Pool.level, tree)
        /\ \A b \in CallerLive :
               LET freed == buddy_free(Pool, tree, b.off)
               IN  /\ freed.fate = "freed"
                   /\ Coalesced(Pool.level, freed.tree)
                   /\ \A a \in Ancestors(b.node) :
                          _get_index_status(freed.tree, a) # NODE_FULL
                   /\ \E m \in {b.node} \cup Ancestors(b.node) :
                          /\ m \in Reachable(Pool.level, freed.tree, 0)
                          /\ _get_index_status(freed.tree, m) = NODE_UNUSED

\* The last buddy_free merged the freed block over two levels while other
\* blocks stay live.
C15_Witness ==
    /\ phase = "ready"
    /\ last.op = "free"
    /\ last.node > 2
    /\ CallerLive # {}
    /\ ParentOf(ParentOf(last.node)) \in Reachable(Pool.level, tree, 0)
    /\ _get_index_status(tree, ParentOf(ParentOf(last.node))) = NODE_UNUSED

\* C16: the offset returned for a node at depth d is its index within the
\* depth, index + 1 - 2^d, times the bytes 2^(total_level - d) of its block,
\* so it is a multiple of the block's bytes, and the descent of buddy_free by
\* that offset stops at that node.
C16_OffsetOfNode ==
    phase = "ready" =>
        \A b \in BagToSet(live) :
            /\ b.bytes = NodeBytes(Pool, b.node)
            /\ b.off = (b.node + 1 - 2^Depth(b.node)) * NodeBytes(Pool, b.node)
            /\ b.off % b.bytes = 0
            /\ buddy_free(Pool, tree, b.off).fate = "freed"
            /\ buddy_free(Pool, tree, b.off).node = b.node

\* The last buddy_alloc returned a block above the minimum size that is
\* neither the first nor the second of its depth.
C16_Witness ==
    /\ phase = "ready"
    /\ last.op = "alloc"
    /\ last.ret # NULL
    /\ Depth(last.node) < Pool.level
    /\ last.ret >= 2 * last.bytes
    /\ Cardinality(CallerLive) >= 2

\* C17: during a buddy_alloc of any size, and during a buddy_free of a
\* pointer the caller holds, every index read or written in the status tree
\* is the index of a node of the tree.
C17_IndexInRange ==
    [][(\/ last'.op = "alloc"
        \/ (last'.op = "free" /\ last'.d \in {b.off : b \in CallerLive}))
          => phase' # "undefined"]_vars

\* C18: over a buffer of 2^total_level bytes every block buddy_alloc returns
\* lies inside the buffer; the block's offset counts from tree[], which
\* starts HeaderBytes into the buffer.
C18_BlocksInsideBuffer ==
    phase = "ready" =>
        \A b \in CallerLive :
            HeaderBytes + b.off + b.bytes <= BufferBytes(args)

\* C19: in any state, a buddy_alloc that returns p followed at once by
\* buddy_free of p leaves every node reachable from the root through SPLIT
\* and FULL nodes with the status it had before the buddy_alloc.
C19_AllocFreeInverse ==
    phase = "ready" =>
        \A s \in Requests(Pool) :
            RoundingDefined(build, ctl.min_level, s) =>
                \A r \in buddy_alloc(build, Pool, tree, s) :
                    (r.ret # NULL /\ ~r.ub) =>
                        LET freed == buddy_free(Pool, r.tree, r.ret)
                        IN  /\ freed.fate = "freed"
                            /\ freed.node = r.node
                            /\ LiveTree(Pool.level, freed.tree)
                                   = LiveTree(Pool.level, tree)

\* After a free, the block just freed is the one a buddy_alloc of its size
\* returns again; one request is served by splitting a node and another by
\* a block that turns its parent and its grandparent FULL.
C19_Witness ==
    /\ phase = "ready"
    /\ last.op = "free"
    /\ last.node > 0
    /\ \A r \in buddy_alloc(build, Pool, tree, Bits(NodeBytes(Pool, last.node))) :
           r.node = last.node
    /\ \E s \in FittingRequests : \E r \in buddy_alloc(build, Pool, tree, s) :
           /\ r.ret # NULL
           /\ _get_index_status(tree, ParentOf(r.node)) = NODE_UNUSED
    /\ \E s \in FittingRequests : \E r \in buddy_alloc(build, Pool, tree, s) :
           /\ r.ret # NULL
           /\ r.node > 2
           /\ _get_index_status(tree, ParentOf(r.node)) = NODE_SPLIT
           /\ _get_index_status(tree, ParentOf(ParentOf(r.node))) = NODE_SPLIT
           /\ _get_index_status(r.tree, ParentOf(r.node)) = NODE_FULL
           /\ _get_index_status(r.tree, ParentOf(ParentOf(r.node))) = NODE_FULL

\* C20: every buddy_alloc, and every buddy_free of a pointer the caller
\* holds, comes to its end: a call in progress leads to the idle frame,
\* with its result or with the failure of the program.
C20_CallsTerminate == (frame.pc # "idle") ~> (frame.pc = "idle")

\* A buddy_alloc has searched a tree that still has free blocks, none of
\* them large enough, has climbed past the root and returned NULL.
C20_Witness ==
    /\ phase = "ready"
    /\ frame.pc = "idle"
    /\ frame.steps >= 2 * Pool.level + 1
    /\ last.op = "alloc"
    /\ last.ret = NULL
    /\ Cardinality(CallerLive) >= 2
    /\ FreeBlocks(Pool, BagToSet(live), 2^Pool.min_level) # {}

====
